---- MODULE Spec2Model ----
(***************************************************************************)
(* Model of the christmas-tree repository's gesture pipeline:              *)
(*   - the landmark classifier (detectGesture, calculateFingerDistance),   *)
(*   - the tracker callback of the session controller (onResults),         *)
(*   - the camera-permission lifecycle (requestCameraPermission and the    *)
(*     unmount cleanup effect) of the useHandGesture hook,                 *)
(* and of its scene:                                                       *)
(*   - the populations interpolated between tree and galaxy endpoints      *)
(*     (ParticleSystem.tsx),                                               *)
(*   - the spring engine of a photo card (PhotoCards.tsx),                 *)
(*   - the camera controller of the scene (ParticleSystem.tsx),            *)
(*   - the camera preview and its media stream (CameraDebug.tsx).          *)
(*                                                                         *)
(* Coordinates are integers in hundredths of the normalized image unit     *)
(* (0.01), so the pinch threshold 0.06 is 6.  A distance is kept as its    *)
(* square (in 1e-4 units): Math.sqrt is strictly monotone on the           *)
(* non-negative reals, so  sqrt(d2) < 0.06  iff  d2 < 0.06^2.              *)
(***************************************************************************)
EXTENDS Integers, Sequences, FiniteSets, TLC

VARIABLES
  \* --- classifier applied as a pure function ---
  clsInput,        \* the landmarks argument handed to detectGesture
  clsOutput,       \* its return value ("pending" before the call)
  clsReads,        \* the landmark indices the call dereferenced
  \* --- tracker callback (onResults) ---
  state,           \* useState<HandGestureState>: gesture, handPosition, pinchDistance, isTracking
  lastGestureRef,  \* useRef<GestureType>('none')
  notifications,   \* the arguments of the onGestureChange calls so far, in order
  results,         \* the argument of the most recent tracker callback
  threw,           \* whether the most recent tracker callback ended in a TypeError
  prevHandLabel,   \* label classified for the previous hand-carrying callback
  callbacks,       \* number of tracker callbacks delivered so far
  \* --- camera-permission lifecycle (requestCameraPermission, cleanup) ---
  cameraPermission,        \* useState: 'prompt' | 'pending' | 'granted' | 'denied'
  isInitializing,          \* useState<boolean>
  renderedIsInitializing,  \* isInitializing as captured by the current callback instance
  mounted,                 \* the component is mounted (the cleanup has not run)
  calls,                   \* number of requestCameraPermission invocations so far
  pc,                      \* per request: the await it is suspended on
  getUserMediaCalls,       \* number of navigator.mediaDevices.getUserMedia calls issued
  videoRef,                \* videoRef.current: the request whose video it holds, 0 for null
  handsRef,                \* handsRef.current, likewise
  cameraRef,               \* cameraRef.current, likewise
  documentVideos,          \* hidden video elements attached to document.body
  handsLive,               \* Hands trackers constructed and never closed
  cameraStatus,            \* per request: its Camera object's status
  \* --- an interpolated population (ParticleSystem.tsx) ---
  population,      \* which component the run follows
  objects,         \* its per-object data: delay, treePosition, galaxyPosition
  treeState,       \* the state prop: 'tree' | 'galaxy'
  progress,        \* transitionRef.current.progress, in tenths
  frameProgress,   \* the progress the most recent frame read (-1 before the first)
  staggered,       \* per object: the local progress of that frame, in hundredths
  positions,       \* per object: the position of its instance matrix, in 1e-6 units
  \* --- one photo card (PhotoCardMesh of PhotoCards.tsx); treeState is its state prop ---
  texture,         \* useState: the texture has loaded, so the group is rendered
  isFocused,       \* the isFocused prop
  spring,          \* springRef.current: position, velocity, scale, scaleVelocity
  mesh,            \* the group's rendered position and scale
  timeFinite,      \* timeRef.current is a finite number
  dt,              \* the dt of the most recent frame, in ms
  frameDelta,      \* the delta handed to the most recent frame, in ms
  frameCount,      \* frameCountRef.current modulo 4
  branch,          \* the path of the most recent frame: settled | integrated
  needsUpdate,     \* needsUpdateRef.current
  prevState,       \* prevStateRef.current
  prevFocused,     \* prevFocusedRef.current
  changes,         \* state and focus changes so far
  oddFrames,       \* frames so far whose delta was not a regular one
  \* --- the camera controller (CameraController); treeState is its state prop ---
  handPosition,        \* the handPosition prop: absent, or x and y in thousandths
  orbitRotation,       \* the orbitRotation prop, angles in milliradians
  positionRef,         \* positionRef.current, copied to camera.position, in 1e-4 units
  targetFromHand,      \* the most recent frame took the branch of lines 500-501
  cameraFrames,        \* frames of the controller so far
  twinHandPosition,    \* handPosition in a second run with the same other inputs
  twinPositionRef,     \* positionRef.current in that second run
  twinsAgreeInGalaxy,  \* every frame in state galaxy saw the same hand in both runs
  twinsDifferInTree,   \* some frame in state tree saw different hands in the runs
  \* --- the camera preview (CameraDebug) ---
  enabled,         \* the enabled prop
  isVisible,       \* useState(true)
  previewStatus,   \* useState status: 'waiting' | 'active' | 'error'
  debugMounted,    \* the preview component is mounted
  effects,         \* runs of the effect of line 14 that called startCamera
  instance         \* per such run: the await it is at, its stream, its cleanup

clsVars == <<clsInput, clsOutput, clsReads>>
trkVars == <<state, lastGestureRef, notifications, results, threw, prevHandLabel, callbacks>>
camVars ==
  <<cameraPermission, isInitializing, renderedIsInitializing, mounted, calls, pc,
    getUserMediaCalls, videoRef, handsRef, cameraRef, documentVideos, handsLive,
    cameraStatus>>
lerpVars == <<population, objects, treeState, progress, frameProgress, staggered, positions>>
cardVars ==
  <<texture, isFocused, spring, mesh, timeFinite, dt, frameDelta, frameCount, branch,
    needsUpdate, prevState, prevFocused>>
envVars == <<changes, oddFrames>>
ctlVars ==
  <<handPosition, orbitRotation, positionRef, targetFromHand, cameraFrames,
    twinHandPosition, twinPositionRef, twinsAgreeInGalaxy, twinsDifferInTree>>
dbgVars == <<enabled, isVisible, previewStatus, debugMounted, effects, instance>>
viewVars == <<ctlVars, dbgVars>>
sceneVars == <<lerpVars, cardVars, envVars, viewVars>>
vars == <<clsVars, trkVars, camVars, sceneVars>>

----------------------------------------------------------------------------
(* Landmark inputs *)

\* landmarks.length < 21 (part_000:35)
NumLandmarks == 21

\* pinchDist < 0.06 (part_000:54), in hundredths
PinchThreshold == 6

\* how many points beyond 21 an enumerated landmark list may carry
MaxExtraPoints == 1

GestureType == {"none", "fist", "open", "pinch", "pointing"}

\* null / undefined in place of the landmark array
NullLandmarks == [present |-> FALSE, points |-> <<>>]

BasePoint == [x |-> 50, y |-> 50, z |-> 0]

\* displacement of the thumb tip (4) from the index tip (8); squared lengths
\* 0, 25, 34, 34, 36, 36, 36, 38, 1300: below, at and above the threshold
ThumbOffsets ==
  { <<0, 0, 0>>, <<5, 0, 0>>, <<3, 4, 3>>, <<-5, -3, 0>>, <<6, 0, 0>>,
    <<4, 4, 2>>, <<0, 0, -6>>, <<3, 5, 2>>, <<30, 20, 0>> }

\* tip.y - mcp.y for index, middle, ring, pinky, in tenths: above, level, below
TipRel == {-1, 0, 1}
FingerRels == [1..4 -> TipRel]

FingerTips == <<8, 12, 16, 20>>
FingerMcps == <<5, 9, 13, 17>>

\* the i-th point (0-based) of a synthetic hand
HandPoint(i, off, rel) ==
  IF i = 4 THEN [x |-> BasePoint.x + off[1],
                 y |-> BasePoint.y + 10 * rel[1] + off[2],
                 z |-> BasePoint.z + off[3]]
  ELSE IF \E f \in 1..4 : FingerTips[f] = i
       THEN LET f == CHOOSE g \in 1..4 : FingerTips[g] = i
            IN  [x |-> BasePoint.x, y |-> BasePoint.y + 10 * rel[f], z |-> BasePoint.z]
       ELSE BasePoint

MkHand(n, off, rel) ==
  [present |-> TRUE, points |-> [i \in 1..n |-> HandPoint(i - 1, off, rel)]]

Lengths == 0..(NumLandmarks + MaxExtraPoints)

Hands == { MkHand(n, off, rel) : n \in Lengths, off \in ThumbOffsets, rel \in FingerRels }

ClassifyInputs == Hands \cup {NullLandmarks}

----------------------------------------------------------------------------
(* JavaScript array access *)

\* landmarks[i] is an object (not undefined)
Defined(landmarks, i) == landmarks.present /\ i < Len(landmarks.points)

At(landmarks, i) == landmarks.points[i + 1]

Sq(a) == a * a

----------------------------------------------------------------------------
(* part_000:24-32 *)

\* p1.x etc. on an undefined element is a TypeError
calculateFingerDistanceThrows(landmarks, finger1, finger2) ==
  ~Defined(landmarks, finger1) \/ ~Defined(landmarks, finger2)

\* the squared distance (see the header); defined when the call does not throw
calculateFingerDistance(landmarks, finger1, finger2) ==
  LET p1 == At(landmarks, finger1)
      p2 == At(landmarks, finger2)
  IN  Sq(p1.x - p2.x) + Sq(p1.y - p2.y) + Sq(p1.z - p2.z)

----------------------------------------------------------------------------
(* part_000:34-82 *)

\* mutant of Extended: a level fingertip (tip.y = mcp.y) counts as extended
Extended_LevelCounts(landmarks, f) ==
  At(landmarks, FingerTips[f]).y <= At(landmarks, FingerMcps[f]).y

\* tip.y < mcp.y for finger f (1 index .. 4 pinky)
Extended(landmarks, f) ==
  At(landmarks, FingerTips[f]).y < At(landmarks, FingerMcps[f]).y

ExtendedCount(landmarks) == Cardinality({f \in 1..4 : Extended(landmarks, f)})

\* the indices read on lines 40-50
DetectIndices == {0, 4, 5, 8, 9, 12, 13, 16, 17, 20}

\* mutant of DetectGuard: the length test is off by one
DetectGuard_OffByOne(landmarks) ==
  ~landmarks.present \/ Len(landmarks.points) < NumLandmarks - 1

\* the early return of line 35
DetectGuard(landmarks) == ~landmarks.present \/ Len(landmarks.points) < NumLandmarks

\* mutant of detectGesture: the pinch test comes after the finger counts
detectGesture_PinchLast(landmarks) ==
  IF DetectGuard(landmarks) THEN "none"
  ELSE IF \E i \in DetectIndices \ {0} : ~Defined(landmarks, i) THEN "TypeError"
  ELSE IF ExtendedCount(landmarks) >= 3 THEN "open"
  ELSE IF ExtendedCount(landmarks) <= 1 THEN "fist"
  ELSE IF calculateFingerDistance(landmarks, 4, 8) < Sq(PinchThreshold) THEN "pinch"
  ELSE "none"

detectGesture(landmarks) ==
  IF DetectGuard(landmarks) THEN "none"
  ELSE IF calculateFingerDistanceThrows(landmarks, 4, 8) THEN "TypeError"
  ELSE IF calculateFingerDistance(landmarks, 4, 8) < Sq(PinchThreshold) THEN "pinch"
  ELSE IF \E i \in DetectIndices \ {0} : ~Defined(landmarks, i) THEN "TypeError"
  ELSE IF ExtendedCount(landmarks) >= 3 THEN "open"
  ELSE IF ExtendedCount(landmarks) <= 1 THEN "fist"
  ELSE IF /\ Extended(landmarks, 1) /\ ~Extended(landmarks, 2)
          /\ ~Extended(landmarks, 3) /\ ~Extended(landmarks, 4) THEN "pointing"
  ELSE "none"

\* the landmark indices detectGesture reads for this input
detectGestureReads(landmarks) ==
  IF DetectGuard(landmarks) THEN {} ELSE DetectIndices

----------------------------------------------------------------------------
(* The classifier applied to one input *)

ClsIdle ==
  /\ clsInput = NullLandmarks
  /\ clsOutput = "pending"
  /\ clsReads = {}

ClsInit ==
  /\ clsInput \in ClassifyInputs
  /\ clsOutput = "pending"
  /\ clsReads = {}

\* one call detectGesture(clsInput)
Classify ==
  /\ clsOutput = "pending"
  /\ clsOutput' = detectGesture(clsInput)
  /\ clsReads' = detectGestureReads(clsInput)
  /\ UNCHANGED clsInput

----------------------------------------------------------------------------
(* part_000:10-22: the hook's state after construction *)

NullPosition == [null |-> TRUE]

InitialState ==
  [gesture |-> "none", handPosition |-> NullPosition, pinchDistance |-> 10000,
   isTracking |-> FALSE]

\* results.multiHandLandmarks absent or empty
NoHandResults == [hand |-> FALSE, landmarks |-> NullLandmarks]

HandResults(landmarks) == [hand |-> TRUE, landmarks |-> landmarks]

TrkInit ==
  /\ state = InitialState
  /\ lastGestureRef = "none"
  /\ notifications = <<>>
  /\ results = NoHandResults
  /\ threw = FALSE
  /\ prevHandLabel = "none"
  /\ callbacks = 0

\* how many tracker callbacks a run delivers
MaxCallbacks == 4

\* list lengths of the hands the tracker delivers: the 21 points of a
\* well-formed hand (and more), and short lists around the indices 4, 8, 9
\* that onResults dereferences
TrackerLengths == {0, 4, 5, 8, 9, 10, 20} \cup (NumLandmarks..(NumLandmarks + MaxExtraPoints))

TrackerOffsets == { <<3, 4, 3>>, <<6, 0, 0>>, <<30, 20, 0>> }

\* fist (none up), index only, two up, three up, all up, all level
TrackerRels ==
  { <<1, 1, 1, 1>>, <<-1, 1, 1, 1>>, <<-1, -1, 1, 1>>, <<-1, -1, -1, 1>>,
    <<-1, -1, -1, -1>>, <<0, 0, 0, 0>> }

TrackerHands ==
  { MkHand(n, off, rel) : n \in TrackerLengths, off \in TrackerOffsets, rel \in TrackerRels }

----------------------------------------------------------------------------
(* part_000:84-118 *)

\* lines 90-97: palmCenter.x on landmarks[9], then calculateFingerDistance
OnResultsThrows(landmarks) ==
  \/ detectGesture(landmarks) = "TypeError"
  \/ ~Defined(landmarks, 9)
  \/ calculateFingerDistanceThrows(landmarks, 4, 8)

\* lines 91-94: x mirrored (1 - x is 100 - x in hundredths)
HandPosition(landmarks) ==
  [x |-> 100 - At(landmarks, 9).x, y |-> At(landmarks, 9).y]

\* lines 104-110
HandState(prev, landmarks) ==
  [prev EXCEPT !.gesture = detectGesture(landmarks),
               !.handPosition = HandPosition(landmarks),
               !.pinchDistance = calculateFingerDistance(landmarks, 4, 8),
               !.isTracking = TRUE]

\* mutant of NoHandState: losing the hand resets the gesture to 'none'
NoHandState_ResetsGesture(prev) ==
  [prev EXCEPT !.isTracking = FALSE, !.handPosition = NullPosition, !.gesture = "none"]

\* lines 112-116
NoHandState(prev) ==
  [prev EXCEPT !.isTracking = FALSE, !.handPosition = NullPosition]

\* lines 99-102: the value of lastGestureRef.current after the comparison
NextLastGesture(last, gesture) == IF gesture # last THEN gesture ELSE last

\* lines 99-102: the onGestureChange calls after the comparison
Notify(sent, last, gesture) == IF gesture # last THEN Append(sent, gesture) ELSE sent

\* a state setter called with value new: React drops the update of an
\* unmounted component
SetState(old, new) == IF mounted THEN new ELSE old

\* a callback whose results carry a hand (lines 85-110)
OnResultsHand(landmarks) ==
  /\ callbacks < MaxCallbacks
  /\ callbacks' = callbacks + 1
  /\ results' = HandResults(landmarks)
  /\ prevHandLabel' = detectGesture(landmarks)
  /\ IF OnResultsThrows(landmarks)
       THEN \* the TypeError leaves the callback before line 99
            /\ threw' = TRUE
            /\ UNCHANGED <<state, lastGestureRef, notifications>>
       ELSE /\ threw' = FALSE
            /\ lastGestureRef' = NextLastGesture(lastGestureRef, detectGesture(landmarks))
            /\ notifications' = Notify(notifications, lastGestureRef, detectGesture(landmarks))
            /\ state' = SetState(state, HandState(state, landmarks))

\* a callback without a hand (lines 111-117)
OnResultsNoHand ==
  /\ callbacks < MaxCallbacks
  /\ callbacks' = callbacks + 1
  /\ results' = NoHandResults
  /\ threw' = FALSE
  /\ state' = SetState(state, NoHandState(state))
  /\ UNCHANGED <<lastGestureRef, notifications, prevHandLabel>>

TrackerDelivers == \E landmarks \in TrackerHands : OnResultsHand(landmarks)

----------------------------------------------------------------------------
(* part_000:16-21, 120-203: the camera-permission lifecycle *)

\* how many times requestCameraPermission is invoked in a run
MaxCalls == 3

\* the k-th invocation, when it passes the guard, runs as request k
Requests == 1..MaxCalls

CamInit ==
  /\ cameraPermission = "prompt"
  /\ isInitializing = FALSE
  /\ renderedIsInitializing = FALSE
  /\ mounted = TRUE
  /\ calls = 0
  /\ pc = [r \in Requests |-> "idle"]
  /\ getUserMediaCalls = 0
  /\ videoRef = 0
  /\ handsRef = 0
  /\ cameraRef = 0
  /\ documentVideos = {}
  /\ handsLive = {}
  /\ cameraStatus = [r \in Requests |-> "none"]

\* a request is suspended on one of its awaits
InFlight(r) == pc[r] \notin {"idle", "done"}

\* React commits the re-render that a state update schedules before a later
\* task (the completion of getUserMedia, of an import or of camera.start)
\* runs; only synchronous code, such as a second call in the same tick, runs
\* before it.  An unmounted component renders no more.
Committed == ~mounted \/ renderedIsInitializing = isInitializing

\* lines 120-134: the synchronous part of a call, up to the first await.
\* The guard reads the isInitializing captured by this callback instance.
RequestCameraPermission ==
  /\ mounted
  /\ calls < MaxCalls
  /\ calls' = calls + 1
  /\ IF renderedIsInitializing
       THEN UNCHANGED <<cameraPermission, isInitializing, pc, getUserMediaCalls>>
       ELSE /\ isInitializing' = TRUE
            /\ cameraPermission' = "pending"
            /\ getUserMediaCalls' = getUserMediaCalls + 1
            /\ pc' = [pc EXCEPT ![calls + 1] = "getUserMedia"]
  /\ UNCHANGED <<renderedIsInitializing, mounted, videoRef, handsRef, cameraRef,
                 documentVideos, handsLive, cameraStatus>>

\* lines 185-190: catch, then finally
Fail(r) ==
  /\ cameraPermission' = SetState(cameraPermission, "denied")
  /\ isInitializing' = SetState(isInitializing, FALSE)
  /\ pc' = [pc EXCEPT ![r] = "done"]

\* lines 136-142: the test stream's tracks are stopped, 'granted' is set and
\* the import of @mediapipe/hands begins
GetUserMediaResolves(r) ==
  /\ Committed
  /\ pc[r] = "getUserMedia"
  /\ cameraPermission' = SetState(cameraPermission, "granted")
  /\ pc' = [pc EXCEPT ![r] = "importHands"]
  /\ UNCHANGED <<isInitializing, renderedIsInitializing, mounted, calls,
                 getUserMediaCalls, videoRef, handsRef, cameraRef, documentVideos,
                 handsLive, cameraStatus>>

\* line 128 rejects
GetUserMediaRejects(r) ==
  /\ Committed
  /\ pc[r] = "getUserMedia"
  /\ Fail(r)
  /\ UNCHANGED <<renderedIsInitializing, mounted, calls, getUserMediaCalls, videoRef,
                 handsRef, cameraRef, documentVideos, handsLive, cameraStatus>>

\* line 142 resolves; line 143 begins the import of @mediapipe/camera_utils
ImportHandsResolves(r) ==
  /\ Committed
  /\ pc[r] = "importHands"
  /\ pc' = [pc EXCEPT ![r] = "importCamera"]
  /\ UNCHANGED <<cameraPermission, isInitializing, renderedIsInitializing, mounted,
                 calls, getUserMediaCalls, videoRef, handsRef, cameraRef,
                 documentVideos, handsLive, cameraStatus>>

\* line 142 rejects
ImportHandsRejects(r) ==
  /\ Committed
  /\ pc[r] = "importHands"
  /\ Fail(r)
  /\ UNCHANGED <<renderedIsInitializing, mounted, calls, getUserMediaCalls, videoRef,
                 handsRef, cameraRef, documentVideos, handsLive, cameraStatus>>

\* what the constructors of lines 154 and 171 do
CtorOutcomes == {"ok", "handsThrows", "cameraThrows"}

\* lines 143-182: line 143 resolves; the video element is created and
\* appended, the Hands tracker and the Camera are constructed and
\* camera.start() is called
ImportCameraResolves(r, outcome) ==
  /\ Committed
  /\ pc[r] = "importCamera"
  /\ documentVideos' = documentVideos \cup {r}
  /\ videoRef' = r
  /\ IF outcome = "handsThrows"
       THEN /\ Fail(r)
            /\ UNCHANGED <<handsRef, handsLive, cameraRef, cameraStatus>>
       ELSE /\ handsLive' = handsLive \cup {r}
            /\ handsRef' = r
            /\ IF outcome = "cameraThrows"
                 THEN /\ Fail(r)
                      /\ UNCHANGED <<cameraRef, cameraStatus>>
                 ELSE /\ cameraRef' = r
                      /\ cameraStatus' = [cameraStatus EXCEPT ![r] = "starting"]
                      /\ pc' = [pc EXCEPT ![r] = "cameraStart"]
                      /\ UNCHANGED <<cameraPermission, isInitializing>>
  /\ UNCHANGED <<renderedIsInitializing, mounted, calls, getUserMediaCalls>>

\* line 143 rejects
ImportCameraRejects(r) ==
  /\ Committed
  /\ pc[r] = "importCamera"
  /\ Fail(r)
  /\ UNCHANGED <<renderedIsInitializing, mounted, calls, getUserMediaCalls, videoRef,
                 handsRef, cameraRef, documentVideos, handsLive, cameraStatus>>

\* lines 182-190: camera.start() resolves (the camera streams); finally
CameraStartResolves(r) ==
  /\ Committed
  /\ pc[r] = "cameraStart"
  /\ cameraStatus' = [cameraStatus EXCEPT ![r] = "started"]
  /\ isInitializing' = SetState(isInitializing, FALSE)
  /\ pc' = [pc EXCEPT ![r] = "done"]
  /\ UNCHANGED <<cameraPermission, renderedIsInitializing, mounted, calls,
                 getUserMediaCalls, videoRef, handsRef, cameraRef, documentVideos,
                 handsLive>>

\* line 182 rejects
CameraStartRejects(r) ==
  /\ Committed
  /\ pc[r] = "cameraStart"
  /\ cameraStatus' = [cameraStatus EXCEPT ![r] = "failed"]
  /\ Fail(r)
  /\ UNCHANGED <<renderedIsInitializing, mounted, calls, getUserMediaCalls, videoRef,
                 handsRef, cameraRef, documentVideos, handsLive>>

\* lines 120-191: the component re-renders and useCallback, whose
\* dependencies changed, returns an instance that captures the current
\* isInitializing
Render ==
  /\ mounted
  /\ renderedIsInitializing # isInitializing
  /\ renderedIsInitializing' = isInitializing
  /\ UNCHANGED <<cameraPermission, isInitializing, mounted, calls, pc,
                 getUserMediaCalls, videoRef, handsRef, cameraRef, documentVideos,
                 handsLive, cameraStatus>>

\* cameraRef.current.stop(): a streaming camera stops; one whose start() is
\* still pending has no stream to stop yet
StopCamera(status, c) ==
  IF c # 0 /\ status[c] = "started" THEN [status EXCEPT ![c] = "stopped"] ELSE status

\* lines 194-203: the cleanup of the mount effect
Unmount ==
  /\ mounted
  /\ mounted' = FALSE
  /\ cameraStatus' = StopCamera(cameraStatus, cameraRef)
  /\ documentVideos' = documentVideos \ {videoRef}
  /\ UNCHANGED <<cameraPermission, isInitializing, renderedIsInitializing, calls, pc,
                 getUserMediaCalls, videoRef, handsRef, cameraRef, handsLive>>

----------------------------------------------------------------------------
(* ParticleSystem.tsx: the populations interpolated between a tree endpoint  *)
(* and a galaxy endpoint.  progress and delay are in tenths, a local         *)
(* progress in hundredths, a smoothstep value and a position in 1e-6 units   *)
(* (endpoints have integer coordinates), so the arithmetic below is exact.   *)

\* ParticleSystem (143-178), OrnamentBalls (232-252), GemOrnaments (319-360),
\* TetrahedronSpiral (416-442)
Populations == {"particles", "ornaments", "gems", "tetrahedra"}

\* the factor of progress in the local progress: 1.5 or 1.3, in tenths
StaggerSpeed(pop) == IF pop \in {"particles", "tetrahedra"} THEN 15 ELSE 13

\* the factor of delay in the local progress: 0.5 or 0.3, in tenths
StaggerLag(pop) == IF pop \in {"particles", "tetrahedra"} THEN 5 ELSE 3

\* Math.sin(...) * 0.02 of the particle system (line 165), none elsewhere
BreatheValues(pop) == IF pop = "particles" THEN {-20000, 0, 20000} ELSE {0}

\* delay: Math.random() (lines 114, 213) or i / tetraCount (line 399), in [0, 1)
DelayValues == {0, 2, 5, 9}

\* the values gsap gives progress on its way between 0 and 1
ProgressValues == 0..10

\* the two objects of the population followed, each with its own delay
ObjectData ==
  { << [delay |-> d1, treePosition |-> <<1, 2, 3>>, galaxyPosition |-> <<4, 5, 6>>],
       [delay |-> d2, treePosition |-> <<-2, 0, 1>>, galaxyPosition |-> <<3, -4, 0>>] >> :
    d1 \in DelayValues, d2 \in DelayValues }

\* the instance matrices before the first frame: the identity
NoPositions == [i \in 1..2 |-> <<0, 0, 0>>]

LerpInit ==
  /\ population \in Populations
  /\ objects \in ObjectData
  /\ treeState = "tree"
  /\ progress = 0
  /\ frameProgress = -1
  /\ staggered = [i \in 1..2 |-> 0]
  /\ positions = NoPositions

\* the groups of a run that follows no population
LerpIdle ==
  /\ population = "particles"
  /\ objects = << [delay |-> 0, treePosition |-> <<1, 2, 3>>, galaxyPosition |-> <<4, 5, 6>>],
                  [delay |-> 0, treePosition |-> <<-2, 0, 1>>, galaxyPosition |-> <<3, -4, 0>>] >>
  /\ treeState = "tree"
  /\ progress = 0
  /\ frameProgress = -1
  /\ staggered = [i \in 1..2 |-> 0]
  /\ positions = NoPositions

\* Math.max(0, Math.min(1, v)), v in hundredths
Clamp01(v) == IF v < 0 THEN 0 ELSE IF v > 100 THEN 100 ELSE v

\* mutant of staggeredProgress: progress is not sped up (factor 1)
staggeredProgress_NoLead(pop, p, delay) == Clamp01(10 * p - StaggerLag(pop) * delay)

\* mutant of staggeredProgress: the delay advances an object instead of holding it back
staggeredProgress_DelayLeads(pop, p, delay) ==
  Clamp01(StaggerSpeed(pop) * p + StaggerLag(pop) * delay - 50)

\* lines 154-156, 238, 325, 344, 424
staggeredProgress(pop, p, delay) ==
  Clamp01(StaggerSpeed(pop) * p - StaggerLag(pop) * delay)

\* lines 157, 239, 326, 345, 425: s * s * (3 - 2 * s), s in hundredths
smoothProgress(s) == s * s * (300 - 2 * s)

\* lines 160-162: from + (to - from) * smooth
Interpolate(from, to, smooth) == from * 1000000 + (to - from) * smooth

\* lines 160-167, 241-245: the position set for one object
ObjectPosition(object, smooth, breathe) ==
  << Interpolate(object.treePosition[1], object.galaxyPosition[1], smooth),
     Interpolate(object.treePosition[2], object.galaxyPosition[2], smooth) + breathe,
     Interpolate(object.treePosition[3], object.galaxyPosition[3], smooth) >>

\* the state prop changes; the effect of lines 120-128 starts a tween of
\* progress towards 0 (tree) or 1 (galaxy)
SetTreeState ==
  /\ treeState' = (IF treeState = "tree" THEN "galaxy" ELSE "tree")
  /\ UNCHANGED <<population, objects, progress, frameProgress, staggered, positions>>

\* a gsap tick: progress moves towards the target of the running tween and
\* ends on it exactly
GsapTick ==
  /\ \E v \in ProgressValues :
       /\ IF treeState = "galaxy" THEN v > progress ELSE v < progress
       /\ progress' = v
  /\ UNCHANGED <<population, objects, treeState, frameProgress, staggered, positions>>

\* lines 143-178 (232-252, 319-360, 416-442): one frame of the population
Frame ==
  /\ frameProgress' = progress
  /\ staggered' =
       [i \in 1..2 |-> staggeredProgress(population, progress, objects[i].delay)]
  /\ \E breathe \in [1..2 -> BreatheValues(population)] :
       positions' =
         [i \in 1..2 |->
            ObjectPosition(objects[i],
              smoothProgress(staggeredProgress(population, progress, objects[i].delay)),
              breathe[i])]
  /\ UNCHANGED <<population, objects, treeState, progress>>

----------------------------------------------------------------------------
(* PhotoCards.tsx: the spring engine of one photo card.                      *)
(*                                                                           *)
(* A JavaScript number is a record: finite (k = "fin", v its value), NaN, or *)
(* an infinity (k = "inf", v its sign).  Finite lengths and scales are in    *)
(* 1e-4 units, velocities in 1e-4 units per second, times in milliseconds;   *)
(* a product with a time is rounded to the nearest unit.                     *)

N(v) == [k |-> "fin", v |-> v]
NaN == [k |-> "nan", v |-> 0]
Inf(sign) == [k |-> "inf", v |-> sign]

Sign(v) == IF v > 0 THEN 1 ELSE IF v < 0 THEN -1 ELSE 0

\* a / b rounded to the nearest integer, halves away from zero
Round(a, b) == IF a >= 0 THEN (2 * a + b) \div (2 * b) ELSE -((b - 2 * a) \div (2 * b))

\* a + b
FAdd(a, b) ==
  IF a.k = "nan" \/ b.k = "nan" THEN NaN
  ELSE IF a.k = "inf" THEN (IF b.k = "inf" /\ b.v # a.v THEN NaN ELSE a)
  ELSE IF b.k = "inf" THEN b
  ELSE N(a.v + b.v)

FNeg(a) == IF a.k = "nan" THEN a ELSE [a EXCEPT !.v = -a.v]

\* a - b
FSub(a, b) == FAdd(a, FNeg(b))

\* c * a for a non-zero integer constant c
FScale(c, a) ==
  IF a.k = "nan" THEN NaN
  ELSE IF a.k = "inf" THEN Inf(Sign(c) * a.v)
  ELSE N(c * a.v)

\* a * t for a time t in ms: 0 * Infinity is NaN
FTimes(a, t) ==
  IF a.k = "nan" \/ t.k = "nan" THEN NaN
  ELSE IF a.k = "fin" /\ t.k = "fin" THEN N(Round(a.v * t.v, 1000))
  ELSE IF a.v = 0 \/ t.v = 0 THEN NaN
  ELSE Inf(Sign(a.v) * Sign(t.v))

\* Math.min(a, c) for a finite c: NaN if a is NaN
FMin(a, c) ==
  IF a.k = "nan" THEN NaN
  ELSE IF a.k = "inf" THEN (IF a.v > 0 THEN N(c) ELSE a)
  ELSE N(IF a.v < c THEN a.v ELSE c)

\* Math.abs(a) < c: false for NaN and the infinities
AbsBelow(a, c) == a.k = "fin" /\ a.v < c /\ -a.v < c

Vec(p) == [i \in 1..3 |-> N(p[i])]
VAdd(a, b) == [i \in 1..3 |-> FAdd(a[i], b[i])]
VSub(a, b) == [i \in 1..3 |-> FSub(a[i], b[i])]
VScale(c, a) == [i \in 1..3 |-> FScale(c, a[i])]
VTimes(a, t) == [i \in 1..3 |-> FTimes(a[i], t)]

\* a.length() < c, as the comparison of the squares; a coordinate of c or more
\* decides it before any square is taken
LengthBelow(a, c) ==
  /\ \A i \in 1..3 : AbsBelow(a[i], c)
  /\ a[1].v * a[1].v + a[2].v * a[2].v + a[3].v * a[3].v < c * c

\* lines 121-124
SPRING_STIFFNESS == 25
SPRING_DAMPING == 8
SCALE_STIFFNESS == 30
SCALE_DAMPING == 10

\* line 185: 0.033 s
MaxDt == 33

\* line 204: 0.01
SettleTolerance == 100

\* the treePosition and galaxyPosition props of the card followed
CardTreePosition == <<10000, 20000, 30000>>
CardGalaxyPosition == <<40000, -10000, 35000>>

\* line 191: (0, 0, 0.8)
FocusPosition == <<0, 0, 8000>>

\* lines 113-118, 163-166, 274: the card after construction
CardInit ==
  /\ texture = FALSE
  /\ isFocused = FALSE
  /\ spring = [position |-> Vec(CardTreePosition), velocity |-> Vec(<<0, 0, 0>>),
               scale |-> N(4000), scaleVelocity |-> N(0)]
  /\ mesh = [position |-> Vec(CardTreePosition), bob |-> FALSE, scale |-> N(5000)]
  /\ timeFinite = TRUE
  /\ dt = N(0)
  /\ frameDelta = N(0)
  /\ frameCount = 0
  /\ branch = "none"
  /\ needsUpdate = TRUE
  /\ prevState = "tree"
  /\ prevFocused = FALSE

EnvInit == changes = 0 /\ oddFrames = 0

\* lines 190-194
TargetPosition ==
  IF isFocused THEN Vec(FocusPosition)
  ELSE IF treeState = "tree" THEN Vec(CardTreePosition) ELSE Vec(CardGalaxyPosition)

\* line 196
TargetScale == IF isFocused THEN N(50000) ELSE N(4000)

\* mutant of Settled: a tolerance of 0.001 in place of 0.01
Settled_Tighter(sp) ==
  /\ LengthBelow(VSub(sp.position, TargetPosition), 10)
  /\ AbsBelow(FSub(sp.scale, TargetScale), 10)
  /\ LengthBelow(sp.velocity, 10)

\* line 204
Settled(sp) ==
  /\ LengthBelow(VSub(sp.position, TargetPosition), SettleTolerance)
  /\ AbsBelow(FSub(sp.scale, TargetScale), SettleTolerance)
  /\ LengthBelow(sp.velocity, SettleTolerance)

\* mutant of Acceleration: no spring force, the damping force only
Acceleration_NoSpring(displacement, velocity, stiffness, damping) ==
  FScale(-damping, velocity)

\* lines 216-218, 225-227: spring force plus damping force
Acceleration(displacement, velocity, stiffness, damping) ==
  FAdd(FScale(-stiffness, displacement), FScale(-damping, velocity))

\* lines 215-230: one integration step of both springs
Integrate(sp, step) ==
  LET velocity == [i \in 1..3 |->
                     FAdd(sp.velocity[i],
                          FTimes(Acceleration(FSub(sp.position[i], TargetPosition[i]),
                                              sp.velocity[i], SPRING_STIFFNESS, SPRING_DAMPING),
                                 step))]
      scaleVelocity == FAdd(sp.scaleVelocity,
                            FTimes(Acceleration(FSub(sp.scale, TargetScale), sp.scaleVelocity,
                                                SCALE_STIFFNESS, SCALE_DAMPING),
                                   step))
  IN  [position |-> VAdd(sp.position, VTimes(velocity, step)),
       velocity |-> velocity,
       scale |-> FAdd(sp.scale, FTimes(scaleVelocity, step)),
       scaleVelocity |-> scaleVelocity]

\* y + Math.sin(timeRef.current * 0.5) * 0.005: the sine of a non-finite time
\* is NaN; of a finite one the offset, of at most 0.005, is kept as the flag bob
Bobbed(m, y, finite) ==
  [m EXCEPT !.position[2] = IF finite THEN y ELSE NaN, !.bob = finite]

\* lines 126-160: the texture has loaded; the group of line 274 is rendered
\* and meshRef.current is set
TextureLoads ==
  /\ ~texture
  /\ texture' = TRUE
  /\ UNCHANGED <<isFocused, spring, mesh, timeFinite, dt, frameDelta, frameCount, branch,
                 needsUpdate, prevState, prevFocused>>

\* the state prop changes: the effect of lines 168-170 runs
CardSetState ==
  /\ SetTreeState
  /\ needsUpdate' = TRUE
  /\ UNCHANGED <<texture, isFocused, spring, mesh, timeFinite, dt, frameDelta, frameCount,
                 branch, prevState, prevFocused>>

\* the isFocused prop changes: the effect of lines 168-170 runs
CardSetFocused ==
  /\ isFocused' = ~isFocused
  /\ needsUpdate' = TRUE
  /\ UNCHANGED <<texture, spring, mesh, timeFinite, dt, frameDelta, frameCount, branch,
                 prevState, prevFocused>>

\* lines 172-241: one frame of the card, handed delta (in ms).  Without the
\* texture there is no group and the callback returns at line 173.
CardFrame(delta) ==
  /\ texture
  /\ frameDelta' = delta
  /\ dt' = FMin(delta, MaxDt)
  /\ timeFinite' = (timeFinite /\ FMin(delta, MaxDt).k = "fin")
  /\ frameCount' = (frameCount + 1) % 4
  /\ prevState' = treeState
  /\ prevFocused' = isFocused
  /\ IF Settled(spring)
       THEN \* lines 204-212
            /\ needsUpdate' = FALSE
            /\ branch' = "settled"
            /\ spring' = spring
            /\ mesh' = IF frameCount' = 0 /\ ~isFocused
                         THEN Bobbed(mesh, spring.position[2], timeFinite')
                         ELSE mesh
       ELSE \* lines 214-240
            /\ needsUpdate' = (needsUpdate \/ prevState # treeState \/ prevFocused # isFocused)
            /\ branch' = "integrated"
            /\ spring' = Integrate(spring, dt')
            /\ mesh' = LET copied == [position |-> spring'.position, bob |-> FALSE,
                                      scale |-> spring'.scale]
                       IN  IF isFocused THEN copied
                           ELSE Bobbed(copied, spring'.position[2], timeFinite')
  /\ UNCHANGED <<texture, isFocused>>

\* how many times the state or the focus of the card changes in a run
MaxChanges == 1

\* how many frames of a run carry a delta that is not a regular one
MaxOddFrames == 1

\* the deltas of a renderer at 30 frames per second or slower: 33 ms, 100 ms
RegularDeltas == {N(33), N(100)}

\* a 16 ms frame, a zero, a negative, a NaN and the infinite deltas
OddDeltas == {N(16), N(0), N(-16), NaN, Inf(1), Inf(-1)}

----------------------------------------------------------------------------
(* The camera controller (CameraController of ParticleSystem.tsx).           *)
(* Positions are integers in 1e-4 units, hand coordinates in thousandths of  *)
(* the image, angles in milliradians, deltas in ms.                          *)

NoHand == [present |-> FALSE, x |-> 0, y |-> 0]
Hand(x, y) == [present |-> TRUE, x |-> x, y |-> y]

\* no hand, a hand in the top left corner, a hand right of and above the centre
HandPositions == {NoHand, Hand(0, 0), Hand(1000, 250)}

\* the camera straight ahead, and turned by pi/2 and tilted by pi/6
OrbitRotations == {[x |-> 0, y |-> 0], [x |-> 524, y |-> 1571]}

\* frames of the controller in a run
MaxCameraFrames == 2

\* Math.sin and Math.cos of the angles in use, in 1e-4
Sin(a) == CASE a = 0 -> 0 [] a = 524 -> 5000 [] a = 1571 -> 10000
Cos(a) == CASE a = 0 -> 10000 [] a = 524 -> 8660 [] a = 1571 -> 0

\* line 510: 1 - Math.exp(-4 * delta) for the delta 0.033, in 1e-4
SmoothFactor(delta) == CASE delta = 33 -> 1237

\* lines 487-489 and the props of the first render
CtlInit ==
  /\ handPosition = NoHand
  /\ orbitRotation = [x |-> 0, y |-> 0]
  /\ positionRef = <<0, 20000, 120000>>
  /\ targetFromHand = FALSE
  /\ cameraFrames = 0
  /\ twinHandPosition = NoHand
  /\ twinPositionRef = <<0, 20000, 120000>>
  /\ twinsAgreeInGalaxy = TRUE
  /\ twinsDifferInTree = FALSE

\* mutant of UsesHand: the hand is used in every state
UsesHand_AnyState(hand, st) == hand.present

\* line 499: handPosition && state === 'galaxy'
UsesHand(hand, st) == hand.present /\ st = "galaxy"

\* lines 493-507: the target of the frame
CameraTarget(hand, orbit, st) ==
  LET baseDistance == IF st = "tree" THEN 12 ELSE 18
  IN  <<IF UsesHand(hand, st) THEN (hand.x - 500) * 200
                              ELSE Sin(orbit.y) * baseDistance,
        IF UsesHand(hand, st) THEN (500 - hand.y) * 100 + 20000
                              ELSE Sin(orbit.x) * 5 + 20000,
        Cos(orbit.y) * baseDistance>>

\* lines 510-514: the position moves towards the target by the smooth factor
Approach(position, target, delta) ==
  [i \in 1..3 |-> position[i] + Round((target[i] - position[i]) * SmoothFactor(delta), 10000)]

\* the tracker reports another hand position, or none; the second run is given
\* a hand position of its own
SetHandPosition ==
  \E hand \in HandPositions, twin \in HandPositions :
    /\ <<hand, twin>> # <<handPosition, twinHandPosition>>
    /\ handPosition' = hand
    /\ twinHandPosition' = twin
    /\ UNCHANGED <<orbitRotation, positionRef, targetFromHand, cameraFrames,
                   twinPositionRef, twinsAgreeInGalaxy, twinsDifferInTree>>

\* the user drags the scene: the orbitRotation prop changes
SetOrbitRotation ==
  \E orbit \in OrbitRotations :
    /\ orbit # orbitRotation
    /\ orbitRotation' = orbit
    /\ UNCHANGED <<handPosition, positionRef, targetFromHand, cameraFrames,
                   twinHandPosition, twinPositionRef, twinsAgreeInGalaxy, twinsDifferInTree>>

\* lines 491-518: one frame of the controller, in both runs
CameraFrame(delta) ==
  /\ cameraFrames < MaxCameraFrames
  /\ cameraFrames' = cameraFrames + 1
  /\ targetFromHand' = UsesHand(handPosition, treeState)
  /\ positionRef' =
       Approach(positionRef, CameraTarget(handPosition, orbitRotation, treeState), delta)
  /\ twinPositionRef' =
       Approach(twinPositionRef, CameraTarget(twinHandPosition, orbitRotation, treeState), delta)
  /\ twinsAgreeInGalaxy' =
       (twinsAgreeInGalaxy /\ (treeState = "galaxy" => twinHandPosition = handPosition))
  /\ twinsDifferInTree' =
       (twinsDifferInTree \/ (treeState = "tree" /\ twinHandPosition # handPosition))
  /\ UNCHANGED <<handPosition, orbitRotation, twinHandPosition>>

\* the delta of the controller's frames, in ms: 30 frames per second
CameraDeltas == {33}

----------------------------------------------------------------------------
(* The camera preview (CameraDebug.tsx): the effect of lines 14-48 and the   *)
(* media stream each of its runs acquires.                                   *)

\* runs of the effect that call startCamera in a run of the model
MaxEffects == 2

Instances == 1..MaxEffects

\* lines 9-12 and the effect run of a preview mounted with enabled = false
DbgInit ==
  /\ enabled = FALSE
  /\ isVisible = TRUE
  /\ previewStatus = "waiting"
  /\ debugMounted = TRUE
  /\ effects = 0
  /\ instance = [i \in Instances |-> [pc |-> "unused", stream |-> "null", cleaned |-> FALSE]]

ViewIdle == CtlInit /\ DbgInit

\* a setter of useState: React drops it once the component is unmounted
SetStatus(new) == IF debugMounted THEN new ELSE previewStatus

\* lines 43-47: the cleanup of the latest effect run, if that run returned one;
\* it stops the tracks of the stream its closure holds at this moment
Cleanup(f) ==
  IF enabled /\ effects > 0
    THEN [f EXCEPT ![effects] =
            [@ EXCEPT !.cleaned = TRUE,
                      !.stream = IF @ = "live" THEN "stopped" ELSE @]]
    ELSE f

\* the enabled prop changes: the cleanup of the previous run, then the effect
\* of lines 14-42 up to the first await
SetEnabled ==
  /\ debugMounted
  /\ enabled' = ~enabled
  /\ IF enabled
       THEN \* lines 15-18
            /\ instance' = Cleanup(instance)
            /\ effects' = effects
       ELSE \* lines 20-27, 41
            /\ effects < MaxEffects
            /\ effects' = effects + 1
            /\ instance' = [instance EXCEPT ![effects + 1].pc = "getUserMedia"]
  /\ previewStatus' = "waiting"
  /\ UNCHANGED <<isVisible, debugMounted>>

\* lines 25-32: getUserMedia resolves; the video element exists when the
\* preview is rendered (line 50)
DebugGetUserMediaResolves(i) ==
  /\ instance[i].pc = "getUserMedia"
  /\ instance' = [instance EXCEPT ![i] =
       [@ EXCEPT !.stream = "live",
                 !.pc = IF debugMounted /\ isVisible /\ enabled THEN "play" ELSE "done"]]
  /\ UNCHANGED <<enabled, isVisible, previewStatus, debugMounted, effects>>

\* lines 34-38: getUserMedia rejects
DebugGetUserMediaRejects(i) ==
  /\ instance[i].pc = "getUserMedia"
  /\ instance' = [instance EXCEPT ![i].pc = "failed"]
  /\ previewStatus' = SetStatus("error")
  /\ UNCHANGED <<enabled, isVisible, debugMounted, effects>>

\* lines 31-32: play() resolves
PlayResolves(i) ==
  /\ instance[i].pc = "play"
  /\ instance' = [instance EXCEPT ![i].pc = "done"]
  /\ previewStatus' = SetStatus("active")
  /\ UNCHANGED <<enabled, isVisible, debugMounted, effects>>

\* lines 31, 34-38: play() rejects
PlayRejects(i) ==
  /\ instance[i].pc = "play"
  /\ instance' = [instance EXCEPT ![i].pc = "failed"]
  /\ previewStatus' = SetStatus("error")
  /\ UNCHANGED <<enabled, isVisible, debugMounted, effects>>

\* line 69: the close button of the rendered preview
HidePreview ==
  /\ debugMounted /\ enabled /\ isVisible
  /\ isVisible' = FALSE
  /\ UNCHANGED <<enabled, previewStatus, debugMounted, effects, instance>>

\* the preview is unmounted: the cleanup of the latest effect run
DebugUnmount ==
  /\ debugMounted
  /\ debugMounted' = FALSE
  /\ instance' = Cleanup(instance)
  /\ UNCHANGED <<enabled, isVisible, previewStatus, effects>>

----------------------------------------------------------------------------
(* Specifications *)

\* the scene groups of a run that follows neither a population nor a card
SceneIdle == LerpIdle /\ CardInit /\ EnvInit /\ ViewIdle

\* the classifier as a pure function
InitClassify == ClsInit /\ TrkInit /\ CamInit /\ SceneIdle
NextClassify == Classify /\ UNCHANGED <<trkVars, camVars, sceneVars>>
SpecClassify == InitClassify /\ [][NextClassify]_vars

\* the tracker callback
InitTracker == ClsIdle /\ TrkInit /\ CamInit /\ SceneIdle
NextTracker ==
  \/ TrackerDelivers /\ UNCHANGED <<clsVars, camVars, sceneVars>>
  \/ OnResultsNoHand /\ UNCHANGED <<clsVars, camVars, sceneVars>>
SpecTracker == InitTracker /\ [][NextTracker]_vars

\* the camera-permission lifecycle
Init == ClsIdle /\ TrkInit /\ CamInit /\ SceneIdle
Next ==
  \/ RequestCameraPermission /\ UNCHANGED <<clsVars, trkVars, sceneVars>>
  \/ \E r \in Requests : GetUserMediaResolves(r) /\ UNCHANGED <<clsVars, trkVars, sceneVars>>
  \/ \E r \in Requests : GetUserMediaRejects(r) /\ UNCHANGED <<clsVars, trkVars, sceneVars>>
  \/ \E r \in Requests : ImportHandsResolves(r) /\ UNCHANGED <<clsVars, trkVars, sceneVars>>
  \/ \E r \in Requests : ImportHandsRejects(r) /\ UNCHANGED <<clsVars, trkVars, sceneVars>>
  \/ \E r \in Requests, o \in CtorOutcomes :
       ImportCameraResolves(r, o) /\ UNCHANGED <<clsVars, trkVars, sceneVars>>
  \/ \E r \in Requests : ImportCameraRejects(r) /\ UNCHANGED <<clsVars, trkVars, sceneVars>>
  \/ \E r \in Requests : CameraStartResolves(r) /\ UNCHANGED <<clsVars, trkVars, sceneVars>>
  \/ \E r \in Requests : CameraStartRejects(r) /\ UNCHANGED <<clsVars, trkVars, sceneVars>>
  \/ Render /\ UNCHANGED <<clsVars, trkVars, sceneVars>>
  \/ Unmount /\ UNCHANGED <<clsVars, trkVars, sceneVars>>
Spec == Init /\ [][Next]_vars

\* the hands a session's tracker delivers: a fist, an open hand and a pinch,
\* each of 21 points
SessionHands ==
  { MkHand(NumLandmarks, <<30, 20, 0>>, <<1, 1, 1, 1>>),
    MkHand(NumLandmarks, <<30, 20, 0>>, <<-1, -1, -1, -1>>),
    MkHand(NumLandmarks, <<3, 4, 3>>, <<1, 1, 1, 1>>) }

\* lines 168, 171-177: a tracker delivers results to onResults once its
\* camera has fed it frames; stopping the camera does not cancel the
\* hands.send() already under way, and no code path closes the tracker or
\* replaces its callback
TrackerAttached == \E r \in handsLive : cameraStatus[r] \in {"started", "stopped"}

\* one session from the first request to the cleanup, with the callbacks of
\* its tracker
InitSession == ClsIdle /\ TrkInit /\ CamInit /\ SceneIdle
NextSession ==
  \/ calls = 0 /\ RequestCameraPermission /\ UNCHANGED <<clsVars, trkVars, sceneVars>>
  \/ \E r \in Requests : GetUserMediaResolves(r) /\ UNCHANGED <<clsVars, trkVars, sceneVars>>
  \/ \E r \in Requests : GetUserMediaRejects(r) /\ UNCHANGED <<clsVars, trkVars, sceneVars>>
  \/ \E r \in Requests : ImportHandsResolves(r) /\ UNCHANGED <<clsVars, trkVars, sceneVars>>
  \/ \E r \in Requests : ImportHandsRejects(r) /\ UNCHANGED <<clsVars, trkVars, sceneVars>>
  \/ \E r \in Requests, o \in CtorOutcomes :
       ImportCameraResolves(r, o) /\ UNCHANGED <<clsVars, trkVars, sceneVars>>
  \/ \E r \in Requests : ImportCameraRejects(r) /\ UNCHANGED <<clsVars, trkVars, sceneVars>>
  \/ \E r \in Requests : CameraStartResolves(r) /\ UNCHANGED <<clsVars, trkVars, sceneVars>>
  \/ \E r \in Requests : CameraStartRejects(r) /\ UNCHANGED <<clsVars, trkVars, sceneVars>>
  \/ Render /\ UNCHANGED <<clsVars, trkVars, sceneVars>>
  \/ Unmount /\ UNCHANGED <<clsVars, trkVars, sceneVars>>
  \/ TrackerAttached /\ (\E landmarks \in SessionHands : OnResultsHand(landmarks))
       /\ UNCHANGED <<clsVars, camVars, sceneVars>>
  \/ TrackerAttached /\ OnResultsNoHand /\ UNCHANGED <<clsVars, camVars, sceneVars>>
SpecSession == InitSession /\ [][NextSession]_vars

\* one interpolated population: state changes, gsap ticks and frames
InitLerp == ClsIdle /\ TrkInit /\ CamInit /\ LerpInit /\ CardInit /\ EnvInit /\ ViewIdle
NextLerp ==
  \/ SetTreeState /\ UNCHANGED <<clsVars, trkVars, camVars, viewVars, cardVars, envVars>>
  \/ GsapTick /\ UNCHANGED <<clsVars, trkVars, camVars, viewVars, cardVars, envVars>>
  \/ Frame /\ UNCHANGED <<clsVars, trkVars, camVars, viewVars, cardVars, envVars>>
SpecLerp == InitLerp /\ [][NextLerp]_vars

\* one photo card under regular frames, with the changes of its props
InitCard == ClsIdle /\ TrkInit /\ CamInit /\ LerpIdle /\ CardInit /\ EnvInit /\ ViewIdle
\* the loader of lines 126-160 ends in setTexture, on success and on error
TextureStep == TextureLoads /\ UNCHANGED <<clsVars, trkVars, camVars, viewVars, lerpVars, envVars>>
\* the render loop calls the frame callback with a regular delta
RegularFrame ==
  \E delta \in RegularDeltas :
    CardFrame(delta) /\ UNCHANGED <<clsVars, trkVars, camVars, viewVars, lerpVars, envVars>>
NextCard ==
  \/ TextureStep
  \/ /\ changes < MaxChanges
     /\ changes' = changes + 1
     /\ CardSetState
     /\ UNCHANGED <<clsVars, trkVars, camVars, viewVars, oddFrames>>
  \/ /\ changes < MaxChanges
     /\ changes' = changes + 1
     /\ CardSetFocused
     /\ UNCHANGED <<clsVars, trkVars, camVars, viewVars, lerpVars, oddFrames>>
  \/ RegularFrame
SpecCard == InitCard /\ [][NextCard]_vars

\* the same card while the render loop keeps running (requestAnimationFrame
\* calls the callback again and again) and the texture loader completes
\* line 172: the frame callback is called once more. Of the steps of NextCard
\* only RegularFrame advances frameCount, and it is enabled exactly when the
\* texture is there, so fairness of this step is fairness of RegularFrame
FrameArrives == texture /\ frameCount' = (frameCount + 1) % 4
FairSpecCard == SpecCard /\ WF_texture(TextureStep) /\ WF_frameCount(FrameArrives)

\* the same card when a focus, once given, may be released at any time
ReleaseFocus ==
  /\ isFocused
  /\ CardSetFocused
  /\ UNCHANGED <<clsVars, trkVars, camVars, viewVars, lerpVars, envVars>>
NextCardFocus ==
  \/ NextCard
  \/ ReleaseFocus
SpecCardFocus == InitCard /\ [][NextCardFocus]_vars

\* the same card when a frame may also carry any other delta
OddFrame ==
  /\ oddFrames < MaxOddFrames
  /\ oddFrames' = oddFrames + 1
  /\ \E delta \in OddDeltas : CardFrame(delta)
  /\ UNCHANGED <<clsVars, trkVars, camVars, viewVars, lerpVars, changes>>
NextCardDelta ==
  \/ NextCard
  \/ OddFrame
SpecCardDelta == InitCard /\ [][NextCardDelta]_vars

\* the camera controller in two runs that share state, orbit and deltas
InitCameraController == ClsIdle /\ TrkInit /\ CamInit /\ LerpIdle /\ CardInit /\ EnvInit /\ ViewIdle
NextCameraController ==
  \/ SetTreeState /\ UNCHANGED <<clsVars, trkVars, camVars, cardVars, envVars, viewVars>>
  \/ SetHandPosition /\ UNCHANGED <<clsVars, trkVars, camVars, lerpVars, cardVars, envVars, dbgVars>>
  \/ SetOrbitRotation /\ UNCHANGED <<clsVars, trkVars, camVars, lerpVars, cardVars, envVars, dbgVars>>
  \/ \E delta \in CameraDeltas :
       CameraFrame(delta) /\ UNCHANGED <<clsVars, trkVars, camVars, lerpVars, cardVars, envVars, dbgVars>>
SpecCameraController == InitCameraController /\ [][NextCameraController]_vars

\* the camera preview
InitCameraDebug == ClsIdle /\ TrkInit /\ CamInit /\ LerpIdle /\ CardInit /\ EnvInit /\ ViewIdle
NextCameraDebug ==
  \/ SetEnabled /\ UNCHANGED <<clsVars, trkVars, camVars, lerpVars, cardVars, envVars, ctlVars>>
  \/ \E i \in Instances :
       DebugGetUserMediaResolves(i)
       /\ UNCHANGED <<clsVars, trkVars, camVars, lerpVars, cardVars, envVars, ctlVars>>
  \/ \E i \in Instances :
       DebugGetUserMediaRejects(i)
       /\ UNCHANGED <<clsVars, trkVars, camVars, lerpVars, cardVars, envVars, ctlVars>>
  \/ \E i \in Instances :
       PlayResolves(i) /\ UNCHANGED <<clsVars, trkVars, camVars, lerpVars, cardVars, envVars, ctlVars>>
  \/ \E i \in Instances :
       PlayRejects(i) /\ UNCHANGED <<clsVars, trkVars, camVars, lerpVars, cardVars, envVars, ctlVars>>
  \/ HidePreview /\ UNCHANGED <<clsVars, trkVars, camVars, lerpVars, cardVars, envVars, ctlVars>>
  \/ DebugUnmount /\ UNCHANGED <<clsVars, trkVars, camVars, lerpVars, cardVars, envVars, ctlVars>>
SpecCameraDebug == InitCameraDebug /\ [][NextCameraDebug]_vars

----------------------------------------------------------------------------
(* Claims about the classifier, checked under SpecClassify *)

\* the classifier has been applied to a list of at least 21 points
ClassifiedHand ==
  /\ clsOutput # "pending"
  /\ clsInput.present
  /\ Len(clsInput.points) >= 21

\* squared thumb-tip (4) to index-tip (8) distance of the input, from its points
ThumbIndexSq ==
  LET t == clsInput.points[5]
      i == clsInput.points[9]
  IN  (t.x - i.x) * (t.x - i.x) + (t.y - i.y) * (t.y - i.y) + (t.z - i.z) * (t.z - i.z)

\* fingertip strictly above its MCP joint: index 8/5, middle 12/9, ring 16/13, pinky 20/17
IndexUp == clsInput.points[9].y < clsInput.points[6].y
MiddleUp == clsInput.points[13].y < clsInput.points[10].y
RingUp == clsInput.points[17].y < clsInput.points[14].y
PinkyUp == clsInput.points[21].y < clsInput.points[18].y

UpCount ==
  (IF IndexUp THEN 1 ELSE 0) + (IF MiddleUp THEN 1 ELSE 0)
    + (IF RingUp THEN 1 ELSE 0) + (IF PinkyUp THEN 1 ELSE 0)

\* C2: for a 21-point landmark set, detectGesture returns 'pinch' exactly when
\* the thumb-tip to index-tip distance is strictly below 0.06 (squared: below
\* 36), whatever the four fingers do; at 0.06 or more it never returns 'pinch'.
C2_PinchIffClose ==
  ClassifiedHand => ((clsOutput = "pinch") <=> (ThumbIndexSq < 36))

\* C2 witness: a pinch returned for a hand whose four fingers are all extended,
\* which the finger count alone would classify as open
C2_Witness ==
  /\ ClassifiedHand
  /\ clsOutput = "pinch"
  /\ UpCount = 4
  /\ ThumbIndexSq = 34

\* C3: a non-pinch 21-point hand with the index fingertip above its MCP and
\* the middle, ring and pinky fingertips not above theirs is classified
\* 'pointing'.
C3_IndexOnlyIsPointing ==
  (ClassifiedHand /\ ThumbIndexSq >= 36 /\ IndexUp /\ ~MiddleUp /\ ~RingUp /\ ~PinkyUp)
    => clsOutput = "pointing"

C5_ShortOrAbsentIsNone ==
  (clsOutput # "pending" /\ (~clsInput.present \/ Len(clsInput.points) < 21))
    => (clsOutput = "none" /\ clsReads = {})

\* C5 witness: the classifier applied to a list of 20 points
C5_Witness ==
  /\ clsOutput = "none"
  /\ clsInput.present
  /\ Len(clsInput.points) = 20
  /\ clsReads = {}

----------------------------------------------------------------------------
(* Claims about the tracker callback, checked under SpecTracker *)

\* this step is a tracker callback
CallbackStep == callbacks' = callbacks + 1

\* C1: over callbacks that each carry a hand, onGestureChange is invoked
\* exactly once, with the new label, for every callback whose classified label
\* differs from the label of the previous hand-carrying callback ('none' at the
\* start), and never when the label is the same.
C1_NotifyOncePerChange ==
  [][(CallbackStep /\ results'.hand) =>
       notifications' =
         (IF prevHandLabel' # prevHandLabel
            THEN Append(notifications, prevHandLabel')
            ELSE notifications)]_vars

\* C6: a callback with no hand sets isTracking to false and handPosition to
\* null; the exposed gesture, the pinchDistance and the stored last-gesture
\* label keep their values and nothing is notified.  So a hand that comes back
\* with the stored label is not notified either.
C6_NoHandKeepsGesture ==
  [][/\ (CallbackStep /\ ~results'.hand) =>
          /\ state'.isTracking = FALSE
          /\ state'.handPosition = NullPosition
          /\ state'.gesture = state.gesture
          /\ state'.pinchDistance = state.pinchDistance
          /\ lastGestureRef' = lastGestureRef
          /\ notifications' = notifications
          /\ ~threw'
     /\ (CallbackStep /\ results'.hand /\ ~results.hand /\ prevHandLabel' = state.gesture) =>
          notifications' = notifications]_vars

\* C6 witness: the hand was lost while the exposed gesture was 'fist'
C6_Witness ==
  /\ callbacks >= 2
  /\ ~results.hand
  /\ state.gesture = "fist"
  /\ lastGestureRef = "fist"
  /\ ~state.isTracking
  /\ state.handPosition = NullPosition
  /\ state.pinchDistance = 1300
  /\ notifications = <<"fist">>

\* C7: a callback delivering a hand with fewer than 21 points completes without
\* throwing, leaves the label 'none' and the tracking state not-tracking.
C7_ShortHandIsNoGesture ==
  (callbacks > 0 /\ results.hand /\ Len(results.landmarks.points) < 21) =>
    (~threw /\ state.gesture = "none" /\ ~state.isTracking)

----------------------------------------------------------------------------
(* Claims about the camera-permission lifecycle, checked under Spec *)

\* C8: every change of cameraPermission is one of prompt->pending,
\* denied->pending, pending->granted or pending->denied; in particular the
\* state never leaves 'granted' to 'denied' or 'pending'.
C8_LifecycleTransitions ==
  [][cameraPermission' # cameraPermission =>
       <<cameraPermission, cameraPermission'>> \in
         { <<"prompt", "pending">>, <<"denied", "pending">>,
           <<"pending", "granted">>, <<"pending", "denied">> }]_vars

\* C9: a call to requestCameraPermission made while an earlier request has not
\* completed is a no-op: no getUserMedia call, no video/Hands/Camera object and
\* no state change, also when it is made before the component re-rendered.
C9_CallWhileInFlightIsNoop ==
  [][(calls' = calls + 1 /\ \E r \in Requests : InFlight(r)) =>
       UNCHANGED <<cameraPermission, isInitializing, pc, getUserMediaCalls, videoRef,
                   handsRef, cameraRef, documentVideos, handsLive, cameraStatus>>]_vars

\* C10: in every reachable state there is at most one started Camera, one
\* Hands tracker and one hidden video element attached to the document.
C10_SinglePairing ==
  /\ Cardinality({r \in Requests : cameraStatus[r] = "started"}) <= 1
  /\ Cardinality(handsLive) <= 1
  /\ Cardinality(documentVideos) <= 1

\* request r ends in this step
Ends(r) == pc[r] # "done" /\ pc'[r] = "done"

\* request r ends in this step because one of its steps failed: every end
\* but the resolution of camera.start()
EndsFailed(r) == Ends(r) /\ cameraStatus'[r] # "started"

\* C11: a request in which any step fails ends with cameraPermission =
\* 'denied' and isInitializing = false, and every completed request leaves
\* cameraPermission in {granted, denied}, never 'pending' (of a mounted
\* component: an unmounted one has no state to leave).
C11_EndsGrantedOrDenied ==
  [][\A r \in Requests :
       (Ends(r) /\ mounted) =>
         /\ cameraPermission' \in {"granted", "denied"}
         /\ EndsFailed(r) => (cameraPermission' = "denied" /\ isInitializing' = FALSE)]_vars

\* C12: once the unmount cleanup has run, every started Camera is stopped,
\* every appended video element is removed and the Hands tracker is closed,
\* for every object the session created.
C12_CleanupReleasesAll ==
  [][(mounted /\ ~mounted') =>
       /\ \A r \in Requests : cameraStatus'[r] # "started"
       /\ documentVideos' = {}
       /\ handsLive' = {}]_vars

\* C13: a request that resumes after the session was torn down is a no-op: it
\* creates no video element, attaches no tracker, starts no camera and changes
\* no state.
C13_ResumeAfterTeardownIsNoop ==
  [][~mounted =>
       UNCHANGED <<cameraPermission, isInitializing, videoRef, handsRef, cameraRef,
                   documentVideos, handsLive, cameraStatus>>]_vars

----------------------------------------------------------------------------
(* Claims about a released session, checked under SpecSession *)

\* the session was granted, its camera ran, and the cleanup has stopped it
Released ==
  /\ ~mounted
  /\ \E r \in Requests : cameraStatus[r] = "stopped"

\* C14: once a granted session has been released, no tracker callback
\* triggers onGestureChange again, whatever label the stale callback carries.
C14_NoNotifyAfterRelease ==
  [][Released => notifications' = notifications]_vars

----------------------------------------------------------------------------
(* Claims about the interpolated populations, checked under SpecLerp *)

\* position p is the endpoint e, but for the particle system's idle offset of
\* at most 0.02 on y
AtEndpoint(p, e) ==
  /\ p[1] = e[1] * 1000000
  /\ p[3] = e[3] * 1000000
  /\ IF population = "particles"
       THEN p[2] - e[2] * 1000000 \in -20000..20000
       ELSE p[2] = e[2] * 1000000

\* C15: in every population and for every delay, a frame at progress 0 puts
\* each object on its tree endpoint and a frame at progress 1 on its galaxy
\* endpoint, apart from the particle system's idle y offset of at most 0.02.
C15_EndpointsExact ==
  \A i \in 1..2 :
    /\ frameProgress = 0 => AtEndpoint(positions[i], objects[i].treePosition)
    /\ frameProgress = 10 => AtEndpoint(positions[i], objects[i].galaxyPosition)

\* delay 0.2 between (1,2,3) and (4,5,6): the frame at progress 1 renders (4,5,6)
C15_Witness ==
  /\ population = "ornaments"
  /\ objects[1].delay = 2
  /\ objects[2].delay = 9
  /\ frameProgress = 10
  /\ positions[1] = <<4000000, 5000000, 6000000>>

\* C20 as stated: whenever the object with the largest delay has begun
\* (local progress above 0), the object with delay 0 has already reached
\* local progress 1.
C20_WaveSeparated ==
  \A i, j \in 1..2 :
    (frameProgress >= 0 /\ objects[i].delay = 0 /\ objects[j].delay = 9 /\ staggered[j] > 0)
      => staggered[i] = 100

\* C20, amended: the wave is ordered but overlapping.  In every frame an
\* object with the smaller delay has at least the local progress of one with
\* the larger delay, so it begins and completes no later; and in the frames
\* at progress 0.4 to 0.6 the object with the largest delay has begun while
\* the object with delay 0 is still short of local progress 1.
C20_WaveOrdered ==
  \A i, j \in 1..2 :
    /\ objects[i].delay <= objects[j].delay => staggered[i] >= staggered[j]
    /\ (objects[i].delay = 0 /\ objects[j].delay = 9 /\ frameProgress \in 4..6)
         => (staggered[j] > 0 /\ staggered[i] < 100)

\* both objects under way at once: delay 0.9 has begun, delay 0 is not done
C20_Witness ==
  /\ objects[1].delay = 0
  /\ objects[2].delay = 9
  /\ staggered[2] > 0
  /\ staggered[1] < 100
  /\ staggered[1] > staggered[2]

----------------------------------------------------------------------------
(* Claims about the photo card's spring engine, checked under SpecCardDelta  *)
(* (any delta) and SpecCard (regular deltas)                                 *)

\* this step is a frame of the card that got past line 173
FrameStep == frameCount' # frameCount

Finite(a) == a.k = "fin"

\* C16: whatever deltas the frames carry (spikes, zero, negative, NaN,
\* infinite) and however state and focus change, the card's position,
\* velocity, scale and scaleVelocity are finite and its scale is not negative.
C16_StateStaysFinite ==
  /\ \A i \in 1..3 : Finite(spring.position[i]) /\ Finite(spring.velocity[i])
  /\ Finite(spring.scale)
  /\ Finite(spring.scaleVelocity)
  /\ spring.scale.v >= 0

\* C17: a frame whose delta is zero or negative skips the integration: the
\* spring is unchanged and the elapsed-time counter does not move backwards.
C17_NonPositiveDeltaSkips ==
  [][(FrameStep /\ (frameDelta' = Inf(-1) \/ (Finite(frameDelta') /\ frameDelta'.v <= 0)))
       => (spring' = spring /\ Finite(dt') /\ dt'.v >= 0)]_vars

\* damping^2 against 4 * stiffness, for both springs
PositionDampingSq == SPRING_DAMPING * SPRING_DAMPING
ScaleDampingSq == SCALE_DAMPING * SCALE_DAMPING

\* how far coordinate v lies beyond target t, coming from origin o
Beyond(v, t, o) == IF t >= o THEN v - t ELSE t - v

\* the card is on its first way from rest: the construction leaves it at
\* rest on treePosition with scale 0.4, and one change has set its target
FirstTransition == changes = 1 /\ oddFrames = 0

\* C18: both springs have a damping ratio of at least 1 (damping^2 >= 4 *
\* stiffness), so from rest neither the position nor the scale passes its
\* target.
C18_NoOvershoot ==
  /\ PositionDampingSq >= 4 * SPRING_STIFFNESS
  /\ ScaleDampingSq >= 4 * SCALE_STIFFNESS
  /\ FirstTransition =>
       /\ \A i \in 1..3 :
            Beyond(spring.position[i].v, TargetPosition[i].v, CardTreePosition[i]) <= 0
       /\ Beyond(spring.scale.v, TargetScale.v, 4000) <= 0

\* the conditions of line 204 on the spring, from its fields
WithinTolerance ==
  /\ LengthBelow(VSub(spring.position, TargetPosition), 100)
  /\ AbsBelow(FSub(spring.scale, TargetScale), 100)
  /\ LengthBelow(spring.velocity, 100)

\* C19: a frame that finds the card within 0.01 of its target position and
\* scale with a velocity below 0.01 takes the settled branch and leaves the
\* spring unchanged; and a card whose last frame took the settled branch takes
\* it again in the next frame unless state or focus changed in between.
C19_SettledStaysSettled ==
  [][FrameStep =>
       /\ WithinTolerance => (branch' = "settled" /\ spring' = spring)
       /\ (branch = "settled" /\ prevState = treeState /\ prevFocused = isFocused)
            => (branch' = "settled" /\ spring' = spring)]_vars

\* the card has moved to the galaxy endpoint and settled there, off the
\* endpoint by less than the tolerance
C19_Witness ==
  /\ branch = "settled"
  /\ changes = 1
  /\ treeState = "galaxy"
  /\ prevState = "galaxy"
  /\ spring.position # Vec(CardGalaxyPosition)
  /\ frameCount = 0

\* C23: whenever the card takes the settled branch, its scale velocity is
\* below the tolerance too (|scaleVelocity| < 0.01), so none is frozen in the
\* spring and carried into the next transition.
C23_SettledScaleVelocitySmall ==
  branch = "settled" => AbsBelow(spring.scaleVelocity, 100)

\* C24: after every frame of the mounted card the rendered transform agrees
\* with the spring: the rendered scale is spring.scale and the rendered
\* position is spring.position, up to the idle bob of at most 0.005 on y (the
\* flag mesh.bob); also in the settled branch and right after mount.
C24_RenderedAgreesWithSpring ==
  branch # "none" =>
    /\ mesh.scale = spring.scale
    /\ mesh.position = spring.position

\* C21: after a change of state or focus (and at mount), if frames keep
\* arriving and no further change occurs, the card eventually takes the
\* settled branch within 0.01 of the position and scale of the target of the
\* new situation, with a velocity below 0.01.
C21_EventuallySettled ==
  \A k \in 0..MaxChanges :
    (changes = k) ~> (changes > k \/ (branch = "settled" /\ WithinTolerance))

\* the card has been focused and has settled on the focus point with scale 5
C21_Witness ==
  /\ changes = 1
  /\ isFocused
  /\ branch = "settled"
  /\ LengthBelow(VSub(spring.position, Vec(FocusPosition)), 100)
  /\ AbsBelow(FSub(spring.scale, N(50000)), 100)

\* C22: each frame the camera target comes from the hand position if and only
\* if a hand position is present and the state is galaxy; and two runs that
\* differ only in the hand positions seen by frames in state tree have the
\* same camera position after every frame.
C22_HandOnlyInGalaxy ==
  /\ [](twinsAgreeInGalaxy => twinPositionRef = positionRef)
  /\ [][cameraFrames' # cameraFrames =>
          (targetFromHand' <=> (handPosition.present /\ treeState = "galaxy"))]_vars

\* frames in state tree have seen different hands in the two runs, the frames
\* in state galaxy the same present hand, and the camera has moved
C22_Witness ==
  /\ twinsDifferInTree
  /\ twinsAgreeInGalaxy
  /\ targetFromHand
  /\ cameraFrames >= 2
  /\ positionRef # <<0, 20000, 120000>>

\* C25: no media stream acquired by an effect run of the preview is live once
\* that run has been cleaned up (prop disabled or component unmounted),
\* whichever way the cleanup interleaves with getUserMedia.
C25_NoLiveStreamAfterCleanup ==
  \A i \in Instances : instance[i].cleaned => instance[i].stream # "live"

====
